---- MODULE Spec2Model ----
(***************************************************************************)
(* netenum: striped enumeration of the addresses of CIDR ranges.           *)
(*                                                                         *)
(* The model follows src/src/netenum/core.py:                              *)
(*   determine_partition_size   the partition sizer                        *)
(*   NetworkEnumerator.__init__ parsing + one position generator a range   *)
(*   create_generator           the per-network position generator         *)
(*   __iter__ / __aiter__       the round-robin scheduler, both modes      *)
(*                                                                         *)
(* Numbers.  TLC's integers are 32 bit wide, addresses are 32 or   *)
(* 128 bit wide.  A network's address count is always 2^hostbits, so the   *)
(* count of a network is held by its exponent wherever the count itself    *)
(* does not fit, and the ranges that are enumerated address by address     *)
(* have numeric addresses below 2^31 (10.0.0.0 is 167772160, :: is 0).     *)
(***************************************************************************)
EXTENDS Integers, Sequences, FiniteSets, TLC

(***************************************************************************)
(* Bounds of the model.                                                    *)
(***************************************************************************)
\* longest list of range strings handed to a session (small ranges)
MaxNets == 3
\* longest list of range strings when the list may hold a multi-partition range
MaxLargeNets == 2
\* longest list of range strings of a session that two iterators share
MaxSharedNets == 2
\* longest list of range strings when two sessions are built from it
MaxTwoNets == 2
\* longest list of range strings when termination is checked
MaxLiveNets == 2
\* longest list of range strings when the ranges are huge
MaxHugeNets == 2
\* number of addresses the consumer of a huge range takes before it breaks
MaxEmitted == 1030

Min(a, b) == IF a < b THEN a ELSE b
Max(a, b) == IF a > b THEN a ELSE b

(***************************************************************************)
(* Range strings.  A range string is what the caller types; it is held as  *)
(* the fields a parser reads out of the text: whether the text has the     *)
(* shape <address>/<prefix-length> of an address family at all, the        *)
(* family, the numeric value of the address part and the prefix length.    *)
(***************************************************************************)
Cidr(version, addr, plen) ==
    [shape |-> TRUE, version |-> version, addr |-> addr, plen |-> plen]

\* the text "invalid": no address, no prefix
Garbage == [shape |-> FALSE, version |-> 0, addr |-> 0, plen |-> 0]

\* the numeric value of the dotted quad a.b.c.d (of the IPv6 address ::a:b for
\* the low 32 bits, the only IPv6 addresses the model enumerates)
AddrInt(a, b, c, d) == ((a * 256 + b) * 256 + c) * 256 + d

max_prefixlen(version) == IF version = 4 THEN 32 ELSE 128

(***************************************************************************)
(* ipaddress.ip_network(cidr), strict (the default): the text must parse   *)
(* as an address of one family with a prefix length in 0..max_prefixlen,   *)
(* and the address must have no bit set right of the prefix ("has host     *)
(* bits set"); every failure is a ValueError.                              *)
(***************************************************************************)
HostBitsOf(version, plen) == max_prefixlen(version) - plen

\* addr modulo 2^hostbits, for addr < 2^31
HostPart(addr, hostbits) == IF hostbits > 30 THEN addr ELSE addr % (2 ^ hostbits)

ip_network(cidr) ==
    IF ~cidr.shape \/ cidr.plen < 0 \/ cidr.plen > max_prefixlen(cidr.version)
    THEN [error |-> "ValueError"]
    ELSE IF HostPart(cidr.addr, HostBitsOf(cidr.version, cidr.plen)) # 0
    THEN [error |-> "ValueError"]
    ELSE [error |-> "none",
          version |-> cidr.version,
          network_address |-> cidr.addr,
          prefixlen |-> cidr.plen]

HostBits(network) == HostBitsOf(network.version, network.prefixlen)

\* network.num_addresses, for networks of at most 2^30 addresses
num_addresses(network) == 2 ^ HostBits(network)

\* int(network.broadcast_address)
broadcast_address(network) == network.network_address + num_addresses(network) - 1

\* network.num_addresses <= limit, for limit < 2^30 and any network
NumAddressesLeq(network, limit) ==
    HostBits(network) <= 30 /\ num_addresses(network) <= limit

\* math.log2(float(network.num_addresses)): the count is 2^hostbits, a float
\* holds every power of two up to 2^128 exactly, and log2 of it is exact.
log2_num_addresses(network) == HostBits(network)

(***************************************************************************)
(* determine_partition_size                                                *)
(***************************************************************************)
determine_partition_size_noshift(network) ==
    IF network.version = 4
    THEN IF NumAddressesLeq(network, 256)
         THEN num_addresses(network)
         ELSE 2 ^ Min(Max(8, log2_num_addresses(network)), 10)
    ELSE IF NumAddressesLeq(network, 65536)
         THEN num_addresses(network)
         ELSE 2 ^ Min(Max(16, log2_num_addresses(network)), 20)

\* the sizer without the lower clamp (max) of partition_bits
determine_partition_size_nomax(network) ==
    IF network.version = 4
    THEN IF NumAddressesLeq(network, 256)
         THEN num_addresses(network)
         ELSE 2 ^ Min(log2_num_addresses(network) - 8, 10)
    ELSE IF NumAddressesLeq(network, 65536)
         THEN num_addresses(network)
         ELSE 2 ^ Min(log2_num_addresses(network) - 16, 20)

\* the sizer with the IPv4 threshold in the IPv6 branch
determine_partition_size_v4limit(network) ==
    IF network.version = 4
    THEN IF NumAddressesLeq(network, 256)
         THEN num_addresses(network)
         ELSE 2 ^ Min(Max(8, log2_num_addresses(network) - 8), 10)
    ELSE IF NumAddressesLeq(network, 256)
         THEN num_addresses(network)
         ELSE 2 ^ Min(Max(16, log2_num_addresses(network) - 16), 20)

determine_partition_size(network) ==
    IF network.version = 4
    THEN IF NumAddressesLeq(network, 256)
         THEN num_addresses(network)
         ELSE 2 ^ Min(Max(8, log2_num_addresses(network) - 8), 10)
    ELSE IF NumAddressesLeq(network, 65536)
         THEN num_addresses(network)
         ELSE 2 ^ Min(Max(16, log2_num_addresses(network) - 16), 20)

(***************************************************************************)
(* create_generator: the position generator of one network.  A generator  *)
(* object is the frame of the suspended function: the partition index i   *)
(* of the outer loop and the position k inside range(start, end).         *)
(***************************************************************************)
CeilDiv(a, b) == (a + b - 1) \div b

NewGen == [i |-> 0, k |-> 0, done |-> FALSE]

partition_start_overlap(base, i, size) == base + i

partition_start(base, i, size) == base + (i * size)

partition_end_short(net, start, size) == Min(start + size, broadcast_address(net))

partition_end(net, start, size) == Min(start + size, broadcast_address(net) + 1)

\* a generator that computes two values ahead for each one it yields
RECURSIVE gen_next_ahead(_, _)
gen_next_ahead(e, g) ==
    LET num_partitions == CeilDiv(num_addresses(e.net), e.size)
    IN  IF g.done \/ g.i >= num_partitions
        THEN [stop |-> TRUE, val |-> 0, gen |-> [g EXCEPT !.done = TRUE]]
        ELSE LET start == partition_start(e.base, g.i, e.size)
                 end   == partition_end(e.net, start, e.size)
             IN  IF start + g.k < end
                 THEN [stop |-> FALSE, val |-> start + g.k,
                       gen |-> [g EXCEPT !.k = @ + 2]]
                 ELSE gen_next_ahead(e, [g EXCEPT !.i = @ + 1, !.k = 0])

\* next(gen) on the generator of entry e: the value yielded, or StopIteration
RECURSIVE gen_next(_, _)
gen_next(e, g) ==
    LET num_partitions == CeilDiv(num_addresses(e.net), e.size)
    IN  IF g.done \/ g.i >= num_partitions
        THEN [stop |-> TRUE, val |-> 0, gen |-> [g EXCEPT !.done = TRUE]]
        ELSE LET start == partition_start(e.base, g.i, e.size)
                 end   == partition_end(e.net, start, e.size)
             IN  IF start + g.k < end
                 THEN [stop |-> FALSE, val |-> start + g.k,
                       gen |-> [g EXCEPT !.k = @ + 1]]
                 ELSE gen_next(e, [g EXCEPT !.i = @ + 1, !.k = 0])

(***************************************************************************)
(* NetworkEnumerator.__init__: parse every range string in order, build   *)
(* one (generator, addr_class) pair a network; the first ValueError       *)
(* leaves the constructor and no enumerator object is returned.           *)
(***************************************************************************)
addr_class(network) == IF network.version = 6 THEN "IPv6Address" ELSE "IPv4Address"

NetworkEntry(network) ==
    [net        |-> network,
     base       |-> network.network_address,
     size       |-> determine_partition_size(network),
     addr_class |-> addr_class(network),
     gen        |-> NewGen]

RECURSIVE init_networks_skipping(_, _)
init_networks_skipping(rest, acc) ==
    IF rest = << >>
    THEN [error |-> "none", networks |-> acc]
    ELSE LET network == ip_network(Head(rest))
         IN  IF network.error # "none"
             THEN init_networks_skipping(Tail(rest), acc)
             ELSE init_networks_skipping(Tail(rest), Append(acc, NetworkEntry(network)))

RECURSIVE init_networks(_, _)
init_networks(rest, acc) ==
    IF rest = << >>
    THEN [error |-> "none", networks |-> acc]
    ELSE LET network == ip_network(Head(rest))
         IN  IF network.error # "none"
             THEN [error |-> "ValueError", networks |-> << >>]
             ELSE init_networks(Tail(rest), Append(acc, NetworkEntry(network)))

(***************************************************************************)
(* State.                                                                  *)
(*                                                                         *)
(* Sessions are NetworkEnumerator objects, iterators are the generator    *)
(* objects that __iter__ and __aiter__ return.  An iterator's deque holds *)
(* references to the (generator, addr_class) pairs of its session: the    *)
(* pairs are the session's, the deque is the iterator's.                  *)
(***************************************************************************)
Sessions  == {"A", "B"}
Iterators == {"it1", "it2"}

VARIABLES
    cidrs,        \* the list of range strings the caller passes
    status,       \* session -> "none" | "ok" | "ValueError"
    networks,     \* session -> self.networks: a sequence of entries
    pc,           \* iterator -> "none" | "created" | "yielded" | "sleeping" | "done"
    mode,         \* iterator -> "none" | "sync" | "async"
    owner,        \* iterator -> the session whose networks it pulls from
    active_gens,  \* iterator -> its deque: indices into networks[owner]
    out,          \* iterator -> what it has yielded so far, [cls, addr] and,
                  \*   as history, net: the index of the network pulled from
    sleeps,       \* iterator -> how often it has awaited asyncio.sleep(0)
    sizer_net,    \* the argument of a call of determine_partition_size
    sizer_size,   \* its result (0: not called)
    cli           \* the process of the command line: where main() stands, its
                  \*   -r flag, standard input, what it has written to
                  \*   stdout and stderr, and its exit status

vars == << cidrs, status, networks, pc, mode, owner, active_gens, out, sleeps,
           sizer_net, sizer_size, cli >>

iter_vars == << pc, mode, owner, active_gens, out, sleeps >>

(***************************************************************************)
(* The scheduler: one run of the loop body of __iter__ up to the next     *)
(* yield or to the end of the loop, and the same for __aiter__ (the code  *)
(* has the loop twice).  d is the deque, nets the session's pairs.        *)
(***************************************************************************)
\* deque(self.networks)
new_deque(nets) == [n \in 1..Len(nets) |-> n]

\* active_gens.rotate(1)
rotate_right(d) == IF d = << >> THEN d ELSE << d[Len(d)] >> \o SubSeq(d, 1, Len(d) - 1)

\* active_gens.rotate(-1)
rotate(d) == IF d = << >> THEN d ELSE Append(Tail(d), Head(d))

\* an item typed by the family of the first network, whichever generator
\* the value was pulled from
ItemOfFirstClass(nets, n, val) == [net |-> n, cls |-> nets[1].addr_class, addr |-> val]

\* addr_class(addr_int): the value typed by the class held with the generator
Item(nets, n, val) == [net |-> n, cls |-> nets[n].addr_class, addr |-> val]

NoItem == [net |-> 0, cls |-> "none", addr |-> 0]

\* a loop that ends at the first StopIteration (break for popleft)
loop_break(d, nets) ==
    IF d = << >>
    THEN [end |-> TRUE, deque |-> d, nets |-> nets, item |-> NoItem]
    ELSE LET n == Head(d)
             r == gen_next(nets[n], nets[n].gen)
         IN  IF r.stop
             THEN [end |-> TRUE, deque |-> d,
                   nets |-> [nets EXCEPT ![n].gen = r.gen], item |-> NoItem]
             ELSE [end |-> FALSE, deque |-> d,
                   nets |-> [nets EXCEPT ![n].gen = r.gen],
                   item |-> Item(nets, n, r.val)]

\* a loop that drops the back of the deque on StopIteration (pop for popleft)
RECURSIVE loop_pop_right(_, _)
loop_pop_right(d, nets) ==
    IF d = << >>
    THEN [end |-> TRUE, deque |-> d, nets |-> nets, item |-> NoItem]
    ELSE LET n == Head(d)
             r == gen_next(nets[n], nets[n].gen)
         IN  IF r.stop
             THEN loop_pop_right(SubSeq(d, 1, Len(d) - 1), [nets EXCEPT ![n].gen = r.gen])
             ELSE [end |-> FALSE, deque |-> d,
                   nets |-> [nets EXCEPT ![n].gen = r.gen],
                   item |-> Item(nets, n, r.val)]

\* __iter__, lines 125-132 without the rotate
RECURSIVE iter_loop(_, _)
iter_loop(d, nets) ==
    IF d = << >>
    THEN [end |-> TRUE, deque |-> d, nets |-> nets, item |-> NoItem]
    ELSE LET n == Head(d)
             r == gen_next(nets[n], nets[n].gen)
         IN  IF r.stop
             THEN iter_loop(Tail(d), [nets EXCEPT ![n].gen = r.gen])
             ELSE [end |-> FALSE, deque |-> d,
                   nets |-> [nets EXCEPT ![n].gen = r.gen],
                   item |-> Item(nets, n, r.val)]

\* __aiter__, lines 146-154 without the rotate and the sleep
RECURSIVE aiter_loop(_, _)
aiter_loop(d, nets) ==
    IF d = << >>
    THEN [end |-> TRUE, deque |-> d, nets |-> nets, item |-> NoItem]
    ELSE LET n == Head(d)
             r == gen_next(nets[n], nets[n].gen)
         IN  IF r.stop
             THEN aiter_loop(Tail(d), [nets EXCEPT ![n].gen = r.gen])
             ELSE [end |-> FALSE, deque |-> d,
                   nets |-> [nets EXCEPT ![n].gen = r.gen],
                   item |-> Item(nets, n, r.val)]

(***************************************************************************)
(* Operations.                                                             *)
(***************************************************************************)
\* NetworkEnumerator(cidrs): __init__, lines 92-111
Construct(s) ==
    /\ status[s] = "none"
    /\ LET r == init_networks(cidrs, << >>)
       IN  /\ status' = [status EXCEPT ![s] = IF r.error = "none" THEN "ok" ELSE r.error]
           /\ networks' = [networks EXCEPT ![s] = r.networks]
    /\ UNCHANGED << cidrs, iter_vars, sizer_net, sizer_size, cli >>

\* NetworkEnumerator(list) for a list of the caller's choice
ConstructFrom(s, list) ==
    /\ status[s] = "none"
    /\ LET r == init_networks(list, << >>)
       IN  /\ status' = [status EXCEPT ![s] = IF r.error = "none" THEN "ok" ELSE r.error]
           /\ networks' = [networks EXCEPT ![s] = r.networks]
    /\ UNCHANGED << cidrs, iter_vars, sizer_net, sizer_size, cli >>

\* an iter(session) that makes fresh position generators for the session
IterRestarting(i, s) ==
    /\ pc[i] = "none"
    /\ status[s] = "ok"
    /\ pc' = [pc EXCEPT ![i] = "created"]
    /\ mode' = [mode EXCEPT ![i] = "sync"]
    /\ owner' = [owner EXCEPT ![i] = s]
    /\ networks' = [networks EXCEPT
                       ![s] = [n \in 1..Len(@) |-> [@[n] EXCEPT !.gen = NewGen]]]
    /\ UNCHANGED << cidrs, status, active_gens, out, sleeps, sizer_net, sizer_size, cli >>

\* iter(session): a new generator object of __iter__; its body has not run yet
Iter(i, s) ==
    /\ pc[i] = "none"
    /\ status[s] = "ok"
    /\ pc' = [pc EXCEPT ![i] = "created"]
    /\ mode' = [mode EXCEPT ![i] = "sync"]
    /\ owner' = [owner EXCEPT ![i] = s]
    /\ UNCHANGED << cidrs, status, networks, active_gens, out, sleeps, sizer_net, sizer_size, cli >>

\* session.__aiter__(): a new async generator object; its body has not run yet
Aiter(i, s) ==
    /\ pc[i] = "none"
    /\ status[s] = "ok"
    /\ pc' = [pc EXCEPT ![i] = "created"]
    /\ mode' = [mode EXCEPT ![i] = "async"]
    /\ owner' = [owner EXCEPT ![i] = s]
    /\ UNCHANGED << cidrs, status, networks, active_gens, out, sleeps, sizer_net, sizer_size, cli >>

\* a loop whose position generators belong to the class, not to the object
DeliverShared(i, r) ==
    /\ pc' = [pc EXCEPT ![i] = IF r.end THEN "done" ELSE "yielded"]
    /\ active_gens' = [active_gens EXCEPT ![i] = r.deque]
    /\ networks' = [s \in Sessions |-> IF status[s] = "ok" THEN r.nets ELSE networks[s]]
    /\ out' = [out EXCEPT ![i] = IF r.end THEN @ ELSE Append(@, r.item)]

\* what a run of the loop leaves behind: the item yielded, or the end
Deliver(i, r) ==
    /\ pc' = [pc EXCEPT ![i] = IF r.end THEN "done" ELSE "yielded"]
    /\ active_gens' = [active_gens EXCEPT ![i] = r.deque]
    /\ networks' = [networks EXCEPT ![owner[i]] = r.nets]
    /\ out' = [out EXCEPT ![i] = IF r.end THEN @ ELSE Append(@, r.item)]

\* next(it) on a blocking iterator: from the call to the next yield or to
\* StopIteration.  The first call builds the deque; a later one resumes after
\* the yield, where the rotate is.
IterNext(i) ==
    /\ mode[i] = "sync"
    /\ pc[i] \in {"created", "yielded"}
    /\ LET d == IF pc[i] = "created"
                THEN new_deque(networks[owner[i]])
                ELSE rotate(active_gens[i])
       IN  Deliver(i, iter_loop(d, networks[owner[i]]))
    /\ UNCHANGED << cidrs, status, mode, owner, sleeps, sizer_net, sizer_size, cli >>

\* __anext__ without the await: resumed after the yield, it rotates and goes
\* straight on to the next item
AiterNextNoSleep(i) ==
    /\ mode[i] = "async"
    /\ pc[i] \in {"created", "yielded"}
    /\ LET d == IF pc[i] = "created"
                THEN new_deque(networks[owner[i]])
                ELSE rotate(active_gens[i])
       IN  Deliver(i, aiter_loop(d, networks[owner[i]]))
    /\ UNCHANGED << cidrs, status, mode, owner, sleeps, sizer_net, sizer_size, cli >>

\* await it.__anext__() on a cooperative iterator, up to its first suspension:
\* the first call runs to the first yield; a later one resumes after the
\* yield, rotates and awaits asyncio.sleep(0), which hands control to the
\* event loop.
AiterNext(i) ==
    /\ mode[i] = "async"
    /\ \/ /\ pc[i] = "created"
          /\ Deliver(i, aiter_loop(new_deque(networks[owner[i]]), networks[owner[i]]))
          /\ UNCHANGED sleeps
       \/ /\ pc[i] = "yielded"
          /\ active_gens' = [active_gens EXCEPT ![i] = rotate(@)]
          /\ pc' = [pc EXCEPT ![i] = "sleeping"]
          /\ sleeps' = [sleeps EXCEPT ![i] = @ + 1]
          /\ UNCHANGED << networks, out >>
    /\ UNCHANGED << cidrs, status, mode, owner, sizer_net, sizer_size, cli >>

\* the event loop resumes the task after the sleep: the loop goes on to the
\* next yield or to the end
AiterWake(i) ==
    /\ mode[i] = "async"
    /\ pc[i] = "sleeping"
    /\ Deliver(i, aiter_loop(active_gens[i], networks[owner[i]]))
    /\ UNCHANGED << cidrs, status, mode, owner, sleeps, sizer_net, sizer_size, cli >>

\* a call of determine_partition_size on a network
Measure ==
    /\ sizer_size = 0
    /\ sizer_size' = determine_partition_size(sizer_net)
    /\ UNCHANGED << cidrs, status, networks, iter_vars, sizer_net, cli >>

(***************************************************************************)
(* Inputs.                                                                 *)
(***************************************************************************)
RangeLists(pool, maxlen) == UNION { [1..k -> pool] : k \in 0..maxlen }

\* small ranges of both families, overlapping ones and ones with equal
\* numeric values in the two families, and strings that do not parse
SmallPool ==
    { Cidr(4, AddrInt(10, 0, 0, 0), 31),    \* 10.0.0.0/31
      Cidr(4, AddrInt(10, 0, 0, 0), 30),    \* 10.0.0.0/30
      Cidr(4, AddrInt(0, 0, 0, 0), 31),     \* 0.0.0.0/31
      Cidr(6, AddrInt(0, 0, 0, 0), 127),    \* ::/127
      Cidr(6, AddrInt(0, 0, 0, 1), 128),    \* ::1/128
      Cidr(4, AddrInt(10, 0, 0, 1), 31),    \* 10.0.0.1/31, host bits set
      Cidr(4, AddrInt(10, 0, 0, 0), 33),    \* 10.0.0.0/33
      Garbage }                             \* invalid

\* a range of two partitions (512 addresses, partition 256), a range of one
\* full partition inside it, small ranges of both families
LargePool ==
    { Cidr(4, AddrInt(10, 0, 0, 0), 23),    \* 10.0.0.0/23
      Cidr(4, AddrInt(10, 0, 1, 0), 24),    \* 10.0.1.0/24
      Cidr(4, AddrInt(10, 0, 0, 0), 31),    \* 10.0.0.0/31
      Cidr(6, AddrInt(0, 0, 0, 0), 127),    \* ::/127
      Garbage }

\* every network of both families, by prefix length
AllNetworks ==
    { ip_network(Cidr(4, 0, p)) : p \in 0..32 } \cup { ip_network(Cidr(6, 0, p)) : p \in 0..128 }

\* the command line as a process: main() not entered, lines waiting on stdin
CliProcess(stdin, random) ==
    [pc |-> "start", random |-> random, stdin |-> stdin, addresses |-> << >>,
     stdout |-> << >>, stderr |-> << >>, exit |-> 0, interrupted |-> FALSE]

InitCore ==
    /\ status = [s \in Sessions |-> "none"]
    /\ networks = [s \in Sessions |-> << >>]
    /\ pc = [i \in Iterators |-> "none"]
    /\ mode = [i \in Iterators |-> "none"]
    /\ owner = [i \in Iterators |-> "A"]
    /\ active_gens = [i \in Iterators |-> << >>]
    /\ out = [i \in Iterators |-> << >>]
    /\ sleeps = [i \in Iterators |-> 0]

\* the library used from a program of the caller's: no command line
InitIdle == InitCore /\ cli = CliProcess(<< >>, FALSE)

(***************************************************************************)
(* Spec: one session, one consumer, blocking or cooperative.               *)
(***************************************************************************)
Init ==
    /\ cidrs \in RangeLists(SmallPool, MaxNets)
    /\ InitIdle
    /\ sizer_net = ip_network(Cidr(4, 0, 32))
    /\ sizer_size = 0

Next ==
    \/ Construct("A")
    \/ Iter("it1", "A")
    \/ Aiter("it1", "A")
    \/ IterNext("it1")
    \/ AiterNext("it1")
    \/ AiterWake("it1")

Spec == Init /\ [][Next]_vars

(***************************************************************************)
(* SpecLarge: the same, over lists that hold a range of several partitions.*)
(***************************************************************************)
InitLarge ==
    /\ cidrs \in RangeLists(LargePool, MaxLargeNets)
    /\ InitIdle
    /\ sizer_net = ip_network(Cidr(4, 0, 32))
    /\ sizer_size = 0

SpecLarge == InitLarge /\ [][Next]_vars

(***************************************************************************)
(* SpecModes: two sessions built from the same list, one iterated         *)
(* blocking and one cooperatively, their pulls interleaved in any order.  *)
(***************************************************************************)
NextModes ==
    \/ Construct("A")
    \/ Construct("B")
    \/ Iter("it1", "A")
    \/ Aiter("it2", "B")
    \/ IterNext("it1")
    \/ AiterNext("it2")
    \/ AiterWake("it2")

SpecModes == Init /\ [][NextModes]_vars

(***************************************************************************)
(* SpecSizer: determine_partition_size on every network.                   *)
(***************************************************************************)
InitSizer ==
    /\ cidrs = << >>
    /\ InitIdle
    /\ sizer_net \in AllNetworks
    /\ sizer_size = 0

NextSizer == Measure

SpecSizer == InitSizer /\ [][NextSizer]_vars

(***************************************************************************)
(* Vocabulary of the properties, in terms of the caller's range strings   *)
(* and of what an iterator has yielded.                                    *)
(***************************************************************************)
\* a range string that parses: of a family, prefix length in range, and no
\* bit set right of the prefix
ValidRange(c) ==
    /\ c.shape
    /\ c.plen >= 0
    /\ c.plen <= max_prefixlen(c.version)
    /\ HostPart(c.addr, max_prefixlen(c.version) - c.plen) = 0

AllValid == \A n \in 1..Len(cidrs) : ValidRange(cidrs[n])

\* 2^(address-bits - prefix-length)
RangeCount(c) == 2 ^ (max_prefixlen(c.version) - c.plen)

RangeClass(c) == IF c.version = 4 THEN "IPv4Address" ELSE "IPv6Address"

RECURSIVE SumCounts(_)
SumCounts(list) == IF list = << >> THEN 0 ELSE RangeCount(Head(list)) + SumCounts(Tail(list))

\* the part of an output that was pulled from network n, in output order
EmittedFrom(o, n) == SelectSeq(o, LAMBDA x : x.net = n)

\* how many of the first k items of an output were pulled from network n
CountFrom(o, k, n) == Cardinality({ j \in 1..k : o[j].net = n })

\* base, base+1, ..., in order
Ascending(e, c) == \A k \in 1..Len(e) : e[k].addr = c.addr + (k - 1)

(***************************************************************************)
(* C1: a complete iteration over valid range strings yields, for each     *)
(* input network, exactly its addresses from the base address through the *)
(* last one: 2^(address-bits - prefix-length) items a network, and the    *)
(* output is as long as the sum of the networks' address counts.          *)
(***************************************************************************)
C1_CompleteEnumeration ==
    \A i \in Iterators :
        (AllValid /\ pc[i] = "done") =>
            /\ Len(out[i]) = SumCounts(cidrs)
            /\ \A x \in 1..Len(out[i]) : out[i][x].net \in 1..Len(cidrs)
            /\ \A n \in 1..Len(cidrs) :
                   LET e == EmittedFrom(out[i], n)
                   IN  /\ Len(e) = RangeCount(cidrs[n])
                       /\ Ascending(e, cidrs[n])
                       /\ e[Len(e)].addr = cidrs[n].addr + RangeCount(cidrs[n]) - 1

\* a finished iteration over a two-partition range and a small one
C1_Witness ==
    /\ pc["it1"] = "done"
    /\ Len(cidrs) = 2
    /\ cidrs[1].plen = 31
    /\ cidrs[2].plen = 23
    /\ Len(out["it1"]) = 514

(***************************************************************************)
(* C2: at every point of an iteration, finished or not, what has been     *)
(* yielded from one network is base, base+1, ..., base+k-1 for some       *)
(* k <= its address count.                                                 *)
(***************************************************************************)
C2_AscendingPrefix ==
    \A i \in Iterators :
        /\ ~AllValid => out[i] = << >>
        /\ AllValid =>
               \A n \in 1..Len(cidrs) :
                   LET e == EmittedFrom(out[i], n)
                   IN  /\ Len(e) <= RangeCount(cidrs[n])
                       /\ Ascending(e, cidrs[n])

\* an unfinished iteration that has crossed the partition boundary of a range
C2_Witness ==
    /\ pc["it1"] = "yielded"
    /\ Len(cidrs) >= 1
    /\ cidrs[1].plen = 23
    /\ Len(EmittedFrom(out["it1"], 1)) = 300

(***************************************************************************)
(* C3: round-robin by construction order.  With N input networks, the     *)
(* first N items come one from each network in construction order, and    *)
(* as long as every network still has an address left before the k-th     *)
(* item (k = 0, 1, ...), the k-th item is pulled from network k mod N.    *)
(***************************************************************************)
NoneExhaustedBefore(o, k) ==
    \A n \in 1..Len(cidrs) : CountFrom(o, k, n) < RangeCount(cidrs[n])

C3_RoundRobin ==
    \A i \in Iterators :
        AllValid =>
            LET N == Len(cidrs)
                o == out[i]
            IN  \A k \in 0..(Len(o) - 1) :
                    /\ k < N => o[k + 1].net = k + 1
                    /\ NoneExhaustedBefore(o, k) => o[k + 1].net = (k % N) + 1

\* three networks, seven items out, none exhausted yet
C3_Witness ==
    /\ Len(cidrs) = 3
    /\ Len(out["it1"]) = 7
    /\ NoneExhaustedBefore(out["it1"], 6)
    /\ out["it1"][7].net = 1

(***************************************************************************)
(* C4: an exhausted network leaves the rotation for good and the others   *)
(* keep their cyclic order.  Every item but the first is pulled from the  *)
(* first network, in cyclic construction order after the network of the   *)
(* item before, that still has an address left; a network is out of the   *)
(* rotation only once all its addresses are out; and one that is out      *)
(* never comes back.                                                       *)
(***************************************************************************)
\* the networks after p in cyclic construction order, p itself last
CyclicAfter(p, N) == [j \in 1..N |-> ((p + j - 1) % N) + 1]

\* the first network of that order with an address left after k items
NextLive(o, k, p) ==
    LET N == Len(cidrs)
        order == CyclicAfter(p, N)
        live == { j \in 1..N : CountFrom(o, k, order[j]) < RangeCount(cidrs[order[j]]) }
    IN  IF live = {} THEN 0
        ELSE order[CHOOSE j \in live : \A j2 \in live : j <= j2]

InRotation(i) == { active_gens[i][j] : j \in 1..Len(active_gens[i]) }

Started(i) == pc[i] \in {"yielded", "sleeping", "done"}

C4_Order ==
    \A i \in Iterators :
        AllValid =>
            /\ \A k \in 1..(Len(out[i]) - 1) :
                   out[i][k + 1].net = NextLive(out[i], k, out[i][k].net)
            /\ Started(i) =>
                   \A n \in 1..Len(cidrs) :
                       n \notin InRotation(i) =>
                           CountFrom(out[i], Len(out[i]), n) = RangeCount(cidrs[n])

C4_Permanent ==
    \A i \in Iterators :
        Started(i) =>
            /\ InRotation(i)' \subseteq InRotation(i)
            /\ out'[i] # out[i] =>
                   /\ out'[i][Len(out'[i])].net \in InRotation(i)
                   /\ out'[i][Len(out'[i])].net = active_gens'[i][1]

C4_RemovalKeepsOrder == [](C4_Order) /\ [][C4_Permanent]_vars

\* three networks, the first one gone, the other two still alternating
C4_Witness ==
    /\ Len(cidrs) = 3
    /\ pc["it1"] = "yielded"
    /\ active_gens["it1"] = << 3, 2 >>
    /\ Len(out["it1"]) = 9
    /\ out["it1"][8].net = 2
    /\ out["it1"][9].net = 3

(***************************************************************************)
(* C5, as claimed: in a complete iteration over valid range strings no    *)
(* address appears more than once in the output and none is skipped.      *)
(***************************************************************************)
TypedAddr(x) == [cls |-> x.cls, addr |-> x.addr]

\* the typed addresses range string c covers
RangeAddrs(c) ==
    { [cls |-> RangeClass(c), addr |-> a] : a \in c.addr..(c.addr + RangeCount(c) - 1) }

Occurrences(o, ta) == Cardinality({ x \in 1..Len(o) : TypedAddr(o[x]) = ta })

Covering(ta) == { n \in 1..Len(cidrs) : ta \in RangeAddrs(cidrs[n]) }

C5_NoDuplicateNoSkip ==
    \A i \in Iterators :
        (AllValid /\ pc[i] = "done") =>
            /\ \A x, y \in 1..Len(out[i]) :
                   x # y => TypedAddr(out[i][x]) # TypedAddr(out[i][y])
            /\ \A n \in 1..Len(cidrs) : \A ta \in RangeAddrs(cidrs[n]) :
                   Occurrences(out[i], ta) >= 1

(***************************************************************************)
(* C5, amended: in a complete iteration over valid range strings no       *)
(* address is skipped and every address appears exactly once for each     *)
(* input range that covers it: once when the ranges are disjoint, k times *)
(* when k overlapping or repeated ranges cover it; nothing else appears.  *)
(***************************************************************************)
C5_OncePerCoveringRange ==
    \A i \in Iterators :
        (AllValid /\ pc[i] = "done") =>
            /\ \A n \in 1..Len(cidrs) : \A ta \in RangeAddrs(cidrs[n]) :
                   Occurrences(out[i], ta) = Cardinality(Covering(ta))
            /\ \A x \in 1..Len(out[i]) : Covering(TypedAddr(out[i][x])) # {}

\* a finished iteration over 10.0.0.0/31, 10.0.0.0/30 and a range disjoint
\* from both: 10.0.0.0 is out twice, 10.0.0.2 once
C5_Witness ==
    /\ pc["it1"] = "done"
    /\ Len(cidrs) = 3
    /\ AllValid
    /\ cidrs[1] = Cidr(4, AddrInt(10, 0, 0, 0), 31)
    /\ cidrs[2] = Cidr(4, AddrInt(10, 0, 0, 0), 30)
    /\ cidrs[3].version = 6
    /\ Occurrences(out["it1"], [cls |-> "IPv4Address", addr |-> AddrInt(10, 0, 0, 0)]) = 2
    /\ Occurrences(out["it1"], [cls |-> "IPv4Address", addr |-> AddrInt(10, 0, 0, 2)]) = 1

(***************************************************************************)
(* C6: a malformed range string anywhere in the list makes construction   *)
(* fail with ValueError: no session comes to exist, no iterator is ever   *)
(* opened and no address is ever yielded, also when valid range strings   *)
(* stand before the malformed one.                                         *)
(***************************************************************************)
\* not CIDR notation, or a prefix length outside the family's range
Malformed(c) == ~c.shape \/ c.plen < 0 \/ c.plen > max_prefixlen(c.version)

C6_FailFast ==
    (\E n \in 1..Len(cidrs) : Malformed(cidrs[n])) =>
        /\ \A s \in Sessions : status[s] \in {"none", "ValueError"} /\ networks[s] = << >>
        /\ \A i \in Iterators : pc[i] = "none" /\ out[i] = << >>

\* construction has failed on a list whose first two strings are valid
C6_Witness ==
    /\ status["A"] = "ValueError"
    /\ Len(cidrs) = 3
    /\ ValidRange(cidrs[1])
    /\ ValidRange(cidrs[2])
    /\ Malformed(cidrs[3])

(***************************************************************************)
(* C7, as claimed: a range string with host bits set (10.0.0.1/31) is     *)
(* accepted by construction and stands for the network at its normalized  *)
(* base address.                                                           *)
(***************************************************************************)
NormalizedBase(c) == c.addr - HostPart(c.addr, max_prefixlen(c.version) - c.plen)

C7_HostBitsAccepted ==
    \A s \in Sessions :
        (status[s] # "none" /\ \A n \in 1..Len(cidrs) : ~Malformed(cidrs[n])) =>
            /\ status[s] = "ok"
            /\ Len(networks[s]) = Len(cidrs)
            /\ \A n \in 1..Len(cidrs) : networks[s][n].base = NormalizedBase(cidrs[n])

(***************************************************************************)
(* C8: a cooperative iteration of a fresh session yields the same         *)
(* addresses in the same order as a blocking iteration of another fresh   *)
(* session of the same list: at any moment the shorter output is a prefix *)
(* of the longer, and the finished outputs are equal.                     *)
(***************************************************************************)
IsPrefix(a, b) == Len(a) <= Len(b) /\ a = SubSeq(b, 1, Len(a))

C8_SameSequence ==
    LET a == out["it1"]
        b == out["it2"]
    IN  (mode["it1"] = "sync" /\ mode["it2"] = "async" /\ owner["it1"] # owner["it2"]) =>
            /\ IsPrefix(a, b) \/ IsPrefix(b, a)
            /\ (pc["it1"] = "done" /\ pc["it2"] = "done") => a = b

\* both finished over three networks, one of which ran out first
C8_Witness ==
    /\ mode["it1"] = "sync"
    /\ mode["it2"] = "async"
    /\ pc["it1"] = "done"
    /\ pc["it2"] = "done"
    /\ Len(cidrs) = 3
    /\ cidrs[1].plen = 128
    /\ cidrs[2].plen = 30
    /\ Len(out["it2"]) = 7
    /\ sleeps["it2"] = 7

(***************************************************************************)
(* C9: a cooperative iterator awaits asyncio.sleep(0) once between any    *)
(* two consecutive items: when item j is yielded it has slept j-1 times,  *)
(* and it has slept j times before it goes on after item j.  A blocking   *)
(* iterator never sleeps.                                                  *)
(***************************************************************************)
C9_OneSleepBetweenItems ==
    \A i \in Iterators :
        /\ mode[i] = "async" =>
               /\ pc[i] = "created" => sleeps[i] = 0
               /\ pc[i] = "yielded" => sleeps[i] = Len(out[i]) - 1
               /\ pc[i] \in {"sleeping", "done"} => sleeps[i] = Len(out[i])
        /\ mode[i] # "async" => sleeps[i] = 0

\* the third item of a cooperative iteration is out
C9_Witness ==
    /\ mode["it1"] = "async"
    /\ pc["it1"] = "yielded"
    /\ Len(out["it1"]) = 3
    /\ sleeps["it1"] = 2

(***************************************************************************)
(* C10: determine_partition_size is the reference formula on every prefix *)
(* length of both families: the address count up to 256 (IPv4) or 65536   *)
(* (IPv6), else 2^clamp(log2(count) - 8, 8, 10) or                        *)
(* 2^clamp(log2(count) - 16, 16, 20); /24 -> 256, /20 -> 256, /8 -> 1024, *)
(* IPv6 /120 -> 256.                                                       *)
(***************************************************************************)
Clamp(x, lo, hi) == IF x < lo THEN lo ELSE IF x > hi THEN hi ELSE x

\* by log2(count) = address-bits - prefix-length
RefPartition(version, plen) ==
    LET lg == (IF version = 4 THEN 32 ELSE 128) - plen
    IN  IF version = 4
        THEN (IF lg <= 8 THEN 2 ^ lg ELSE 2 ^ Clamp(lg - 8, 8, 10))
        ELSE (IF lg <= 16 THEN 2 ^ lg ELSE 2 ^ Clamp(lg - 16, 16, 20))

C10_SizerFormula ==
    sizer_size # 0 =>
        /\ sizer_size = RefPartition(sizer_net.version, sizer_net.prefixlen)
        /\ (sizer_net.version = 4 /\ sizer_net.prefixlen = 24) => sizer_size = 256
        /\ (sizer_net.version = 4 /\ sizer_net.prefixlen = 20) => sizer_size = 256
        /\ (sizer_net.version = 4 /\ sizer_net.prefixlen = 8) => sizer_size = 1024
        /\ (sizer_net.version = 6 /\ sizer_net.prefixlen = 120) => sizer_size = 256

\* the sizer has been called on an IPv4 /8
C10_Witness ==
    /\ sizer_net.version = 4
    /\ sizer_net.prefixlen = 8
    /\ sizer_size = 1024

(***************************************************************************)
(* SpecSizerPair: determine_partition_size on two networks of one family, *)
(* the second at least as large as the first.  sizer_net holds the pair   *)
(* of arguments, sizer_size the pair of results.                          *)
(***************************************************************************)
NetworkPairs ==
    { << m, n >> \in AllNetworks \X AllNetworks :
          m.version = n.version /\ m.prefixlen >= n.prefixlen }

InitSizerPair ==
    /\ cidrs = << >>
    /\ InitIdle
    /\ sizer_net \in NetworkPairs
    /\ sizer_size = << >>

\* two calls of determine_partition_size
MeasurePair ==
    /\ sizer_size = << >>
    /\ sizer_size' = << determine_partition_size(sizer_net[1]),
                        determine_partition_size(sizer_net[2]) >>
    /\ UNCHANGED << cidrs, status, networks, iter_vars, sizer_net, cli >>

NextSizerPair == MeasurePair

SpecSizerPair == InitSizerPair /\ [][NextSizerPair]_vars

(***************************************************************************)
(* C11: within one family the partition size is monotonically             *)
(* non-decreasing in the address count (a shorter prefix never gets a     *)
(* smaller partition than a longer one) and never above the family        *)
(* ceiling: 1024 for IPv4, 2^20 for IPv6.                                  *)
(***************************************************************************)
FamilyCeiling(version) == IF version = 4 THEN 1024 ELSE 2 ^ 20

C11_MonotoneBounded ==
    sizer_size # << >> =>
        /\ sizer_size[1] <= sizer_size[2]
        /\ sizer_size[1] <= FamilyCeiling(sizer_net[1].version)
        /\ sizer_size[2] <= FamilyCeiling(sizer_net[2].version)

\* the sizes of an IPv4 /17 and /15 (256 and 512), and the ceiling reached
C11_Witness ==
    /\ sizer_size # << >>
    /\ sizer_net[1].version = 4
    /\ sizer_net[1].prefixlen = 17
    /\ sizer_net[2].prefixlen = 15
    /\ sizer_size = << 256, 512 >>

(***************************************************************************)
(* SpecShared: one session and two iterators opened on it, each blocking  *)
(* or cooperative, opened at any time and pulled in any order.            *)
(***************************************************************************)
InitShared ==
    /\ cidrs \in RangeLists(SmallPool, MaxSharedNets)
    /\ InitIdle
    /\ sizer_net = ip_network(Cidr(4, 0, 32))
    /\ sizer_size = 0

NextShared ==
    \/ Construct("A")
    \/ \E i \in Iterators : Iter(i, "A")
    \/ \E i \in Iterators : Aiter(i, "A")
    \/ \E i \in Iterators : IterNext(i)
    \/ \E i \in Iterators : AiterNext(i)
    \/ \E i \in Iterators : AiterWake(i)

SpecShared == InitShared /\ [][NextShared]_vars

(***************************************************************************)
(* C12: a session is not restartable.  Once an iteration of a session has *)
(* reached end-of-sequence, no iteration of that session, blocking or     *)
(* cooperative, open already or opened later, yields an address.          *)
(***************************************************************************)
SessionFinished(s) == \E i \in Iterators : mode[i] # "none" /\ owner[i] = s /\ pc[i] = "done"

C12_Step ==
    \A s \in Sessions : \A j \in Iterators :
        (SessionFinished(s) /\ owner'[j] = s) => out'[j] = out[j]

C12_NotRestartable == [][C12_Step]_vars

\* a cooperative iteration opened on a session that a blocking one has run
\* to its end has ended too, with nothing yielded
C12_Witness ==
    /\ Len(cidrs) = 2
    /\ mode["it1"] = "sync"
    /\ pc["it1"] = "done"
    /\ Len(out["it1"]) = SumCounts(cidrs)
    /\ mode["it2"] = "async"
    /\ pc["it2"] = "done"
    /\ out["it2"] = << >>

(***************************************************************************)
(* C20: two iterations of one session share the position generators.      *)
(* Under any interleaving of their pulls, what the two have yielded from  *)
(* one network is, taken together, base, base+1, ..., each address once:  *)
(* neither repeats an address of the other, the later one goes on where   *)
(* the network stands, and when both have reached end-of-sequence the two *)
(* outputs together are the network's full address set.                   *)
(***************************************************************************)
AddrSet(e) == { e[k].addr : k \in 1..Len(e) }

StrictlyAscending(e) == \A k \in 1..(Len(e) - 1) : e[k].addr < e[k + 1].addr

C20_SharedGenerators ==
    AllValid =>
        \A n \in 1..Len(cidrs) :
            LET e1 == EmittedFrom(out["it1"], n)
                e2 == EmittedFrom(out["it2"], n)
                base == cidrs[n].addr
            IN  /\ StrictlyAscending(e1)
                /\ StrictlyAscending(e2)
                /\ AddrSet(e1) \cap AddrSet(e2) = {}
                /\ AddrSet(e1) \cup AddrSet(e2) = base..(base + Len(e1) + Len(e2) - 1)
                /\ (pc["it1"] = "done" /\ pc["it2"] = "done") =>
                       Len(e1) + Len(e2) = RangeCount(cidrs[n])

\* a blocking and a cooperative iteration of one session, both at the end,
\* the second of which began in the middle of the first network
C20_Witness ==
    /\ Len(cidrs) = 2
    /\ AllValid
    /\ mode["it1"] = "sync"
    /\ mode["it2"] = "async"
    /\ pc["it1"] = "done"
    /\ pc["it2"] = "done"
    /\ Len(out["it1"]) >= 2
    /\ Len(out["it2"]) >= 2
    /\ out["it2"][1].net = 1
    /\ out["it2"][1].addr # cidrs[1].addr

(***************************************************************************)
(* SpecTwo: two sessions constructed independently, A from the list and B *)
(* from the list read backwards (the same list when it is a palindrome),  *)
(* one iterator on each, blocking or cooperative, pulled in any order.    *)
(***************************************************************************)
Reverse(list) == [k \in 1..Len(list) |-> list[Len(list) + 1 - k]]

NextTwo ==
    \/ ConstructFrom("A", cidrs)
    \/ ConstructFrom("B", Reverse(cidrs))
    \/ Iter("it1", "A")
    \/ Aiter("it1", "A")
    \/ Iter("it2", "B")
    \/ Aiter("it2", "B")
    \/ \E i \in Iterators : IterNext(i)
    \/ \E i \in Iterators : AiterNext(i)
    \/ \E i \in Iterators : AiterWake(i)

InitTwo ==
    /\ cidrs \in RangeLists(SmallPool, MaxTwoNets)
    /\ InitIdle
    /\ sizer_net = ip_network(Cidr(4, 0, 32))
    /\ sizer_size = 0

SpecTwo == InitTwo /\ [][NextTwo]_vars

(***************************************************************************)
(* C13: two independently constructed sessions never interact.  A step of *)
(* the iterator of one session leaves the other session's cursors and the *)
(* other iterator's rotation, position and output unchanged, and at every *)
(* point each iterator's output is a prefix of the sequence its session   *)
(* yields when run alone (round by round, the networks in list order),    *)
(* and the whole of it at the end.                                        *)
(***************************************************************************)
\* the sequence a session built from the list yields when run alone
AloneSlots(list) ==
    UNION { { << r, n >> : r \in 0..(RangeCount(list[n]) - 1) } : n \in 1..Len(list) }

AloneRank(list, p) ==
    1 + Cardinality({ q \in AloneSlots(list) :
                         q[1] < p[1] \/ (q[1] = p[1] /\ q[2] < p[2]) })

AloneRun(list) ==
    [ k \in 1..Cardinality(AloneSlots(list)) |->
        LET p == CHOOSE q \in AloneSlots(list) : AloneRank(list, q) = k
        IN  [net |-> p[2], cls |-> RangeClass(list[p[2]]), addr |-> list[p[2]].addr + p[1]] ]

IterState(i) == << pc[i], mode[i], owner[i], active_gens[i], out[i], sleeps[i] >>

C13_Frame ==
    /\ IterState("it1")' # IterState("it1") =>
           /\ networks'["B"] = networks["B"]
           /\ IterState("it2")' = IterState("it2")
    /\ IterState("it2")' # IterState("it2") =>
           /\ networks'["A"] = networks["A"]
           /\ IterState("it1")' = IterState("it1")

C13_AsAlone ==
    AllValid =>
        /\ IsPrefix(out["it1"], AloneRun(cidrs))
        /\ IsPrefix(out["it2"], AloneRun(Reverse(cidrs)))
        /\ pc["it1"] = "done" => out["it1"] = AloneRun(cidrs)
        /\ pc["it2"] = "done" => out["it2"] = AloneRun(Reverse(cidrs))

C13_IndependentSessions == [](C13_AsAlone) /\ [][C13_Frame]_vars

\* two sessions over the same two-network list, both run to the end, where
\* the one finished before the other had given its second address
C13_Witness ==
    /\ AllValid
    /\ Len(cidrs) = 2
    /\ cidrs = Reverse(cidrs)
    /\ owner["it1"] = "A"
    /\ owner["it2"] = "B"
    /\ pc["it1"] = "done"
    /\ pc["it2"] = "done"
    /\ Len(out["it1"]) = 4
    /\ out["it1"] = out["it2"]

(***************************************************************************)
(* C14: every emitted address is typed by the family of the network it    *)
(* was pulled from, IPv4Address from an IPv4 network and IPv6Address from *)
(* an IPv6 network, and its value is an address of that network; also     *)
(* after rotations and removals in a list that mixes the families.        *)
(***************************************************************************)
C14_TypedByOrigin ==
    \A i \in Iterators : \A k \in 1..Len(out[i]) :
        LET x == out[i][k]
        IN  /\ x.net \in 1..Len(cidrs)
            /\ ValidRange(cidrs[x.net])
            /\ x.cls = (IF cidrs[x.net].version = 4 THEN "IPv4Address" ELSE "IPv6Address")
            /\ TypedAddr(x) \in RangeAddrs(cidrs[x.net])

\* ::1/128, 10.0.0.0/30, ::/127 run to the end: the first network is removed
\* after one round, the third after two, and the last items are IPv4
C14_Witness ==
    /\ Len(cidrs) = 3
    /\ AllValid
    /\ cidrs[1].version = 6
    /\ cidrs[2].version = 4
    /\ cidrs[3].version = 6
    /\ RangeCount(cidrs[1]) = 1
    /\ RangeCount(cidrs[2]) = 4
    /\ pc["it1"] = "done"
    /\ Len(out["it1"]) = 7
    /\ out["it1"][7].cls = "IPv4Address"
    /\ out["it1"][5].cls = "IPv6Address"

(***************************************************************************)
(* SpecBlocking: one session and one blocking iterator whose consumer     *)
(* keeps pulling, as a for loop or list() does until StopIteration.       *)
(***************************************************************************)
NextBlocking ==
    \/ Construct("A")
    \/ Iter("it1", "A")
    \/ IterNext("it1")

InitBlocking ==
    /\ cidrs \in RangeLists(SmallPool, MaxLiveNets)
    /\ InitIdle
    /\ sizer_net = ip_network(Cidr(4, 0, 32))
    /\ sizer_size = 0

SpecBlocking == InitBlocking /\ [][NextBlocking]_vars /\ WF_vars(IterNext("it1"))

(***************************************************************************)
(* C15: blocking iteration over a finite list of valid ranges terminates. *)
(* Every pull either yields one more address or signals the end; the end  *)
(* is signalled only when every network has yielded all its addresses;    *)
(* for the empty list construction succeeds and the first pull signals    *)
(* the end with nothing yielded; and an iteration once opened reaches the *)
(* end.                                                                   *)
(***************************************************************************)
C15_Pull ==
    (pc["it1"] \in {"created", "yielded"} /\ IterState("it1")' # IterState("it1")) =>
        \/ pc'["it1"] = "yielded" /\ Len(out'["it1"]) = Len(out["it1"]) + 1
                                 /\ IsPrefix(out["it1"], out'["it1"])
        \/ pc'["it1"] = "done" /\ out'["it1"] = out["it1"]

C15_EndOnlyWhenExhausted ==
    /\ pc["it1"] = "done" =>
           \A n \in 1..Len(cidrs) :
               Len(EmittedFrom(out["it1"], n)) = RangeCount(cidrs[n])
    /\ cidrs = << >> =>
           /\ status["A"] \in {"none", "ok"}
           /\ out["it1"] = << >>
           /\ pc["it1"] \in {"none", "created", "done"}

C15_BlockingTerminates ==
    /\ [](C15_EndOnlyWhenExhausted)
    /\ [][C15_Pull]_vars
    /\ (pc["it1"] = "created") ~> (pc["it1"] = "done")

\* a one-address range and 10.0.0.0/30, pulled to the end: the end comes
\* three pulls after the first network is exhausted
C15_Witness ==
    /\ Len(cidrs) = 2
    /\ AllValid
    /\ RangeCount(cidrs[1]) = 1
    /\ RangeCount(cidrs[2]) = 4
    /\ mode["it1"] = "sync"
    /\ pc["it1"] = "done"
    /\ Len(out["it1"]) = 5

(***************************************************************************)
(* SpecHuge: ranges of 2^16 and 2^24 addresses, of which the consumer     *)
(* takes the first MaxEmitted and breaks, as the memory tests do.         *)
(***************************************************************************)
HugePool ==
    { Cidr(4, AddrInt(10, 0, 0, 0), 8),     \* 10.0.0.0/8, partitions of 1024
      Cidr(4, AddrInt(12, 168, 0, 0), 16) } \* 12.168.0.0/16, partitions of 256

InitHuge ==
    /\ cidrs \in RangeLists(HugePool, MaxHugeNets)
    /\ InitIdle
    /\ sizer_net = ip_network(Cidr(4, 0, 32))
    /\ sizer_size = 0

\* for addr in netenum(cidrs): count += 1; if count >= MaxEmitted: break
IterNextUntilBreak(i) == Len(out[i]) < MaxEmitted /\ IterNext(i)

AiterNextUntilBreak(i) == Len(out[i]) < MaxEmitted /\ AiterNext(i)

NextHuge ==
    \/ Construct("A")
    \/ Iter("it1", "A")
    \/ Aiter("it1", "A")
    \/ IterNextUntilBreak("it1")
    \/ AiterNextUntilBreak("it1")
    \/ AiterWake("it1")

SpecHuge == InitHuge /\ [][NextHuge]_vars

(***************************************************************************)
(* C16: enumeration is lazy and the session's state is one cursor for     *)
(* each input network, whatever the size of the ranges.  At every point   *)
(* the session holds as many cursors as there are input networks, a       *)
(* cursor is a partition index and a position inside the partition (no    *)
(* collection of addresses), the rotation holds each network at most      *)
(* once, and a cursor stands exactly as far from the base address as the  *)
(* number of addresses emitted from its network.                          *)
(***************************************************************************)
CursorOffset(e) == (e.gen.i * e.size) + e.gen.k

C16_LazyCursors ==
    status["A"] = "ok" =>
        /\ Len(networks["A"]) = Len(cidrs)
        /\ Len(active_gens["it1"]) <= Len(cidrs)
        /\ \A a, b \in 1..Len(active_gens["it1"]) :
               active_gens["it1"][a] = active_gens["it1"][b] => a = b
        /\ \A n \in 1..Len(cidrs) :
               LET e == networks["A"][n]
                   emitted == EmittedFrom(out["it1"], n)
               IN  /\ DOMAIN e.gen = {"i", "k", "done"}
                   /\ e.gen.i \in Nat
                   /\ e.gen.k \in 0..e.size
                   /\ e.gen.done \in BOOLEAN
                   /\ CursorOffset(e) = Len(emitted)
                   /\ emitted # << >> =>
                          emitted[Len(emitted)].addr = cidrs[n].addr + CursorOffset(e) - 1

\* 1,000 and more addresses of 10.0.0.0/8 taken, next to 12.168.0.0/16:
\* both cursors have crossed into a later partition
C16_Witness ==
    /\ Len(cidrs) = 2
    /\ cidrs[1].plen = 16
    /\ cidrs[2].plen = 8
    /\ Len(out["it1"]) >= 1000
    /\ networks["A"][1].gen.i = 2
    /\ networks["A"][2].gen.i = 0
    /\ networks["A"][2].gen.k = 515

(***************************************************************************)
(* C18: for every network of either family the partition size is a power  *)
(* of two that is not larger than the network's address count, hence      *)
(* divides it: the generator walks count/size partitions, all of them     *)
(* full, and the last one ends at the network's last address unclipped.   *)
(***************************************************************************)
C18_SizeDividesCount ==
    sizer_size # 0 =>
        LET h == HostBits(sizer_net)
        IN  /\ \E e \in 0..20 : sizer_size = 2 ^ e /\ e <= h
            /\ h <= 30 =>
                   LET num  == num_addresses(sizer_net)
                       np   == CeilDiv(num, sizer_size)
                       last == partition_start(sizer_net.network_address, np - 1, sizer_size)
                   IN  /\ sizer_size <= num
                       /\ num % sizer_size = 0
                       /\ np * sizer_size = num
                       /\ partition_end(sizer_net, last, sizer_size) = last + sizer_size
                       /\ last + sizer_size = broadcast_address(sizer_net) + 1

\* the sizer has been called on an IPv4 /12: 1024 partitions of 1024
C18_Witness ==
    /\ sizer_net.version = 4
    /\ sizer_net.prefixlen = 12
    /\ sizer_size = 1024
    /\ CeilDiv(num_addresses(sizer_net), sizer_size) = 1024

(***************************************************************************)
(* C19: the striping is fair.  At every point of an iteration, of any two *)
(* networks that both still have an address to give, the one earlier in   *)
(* the list has given as many addresses as the later one or one more.     *)
(***************************************************************************)
HasUnemitted(o, n) == Len(EmittedFrom(o, n)) < RangeCount(cidrs[n])

C19_FairStriping ==
    \A i \in Iterators :
        AllValid =>
            \A m, n \in 1..Len(cidrs) :
                (m < n /\ HasUnemitted(out[i], m) /\ HasUnemitted(out[i], n)) =>
                    LET em == Len(EmittedFrom(out[i], m))
                        en == Len(EmittedFrom(out[i], n))
                    IN  en <= em /\ em <= en + 1

\* 10.0.0.0/30, ::1/128, 10.0.0.0/30 after four items: the second network
\* is exhausted, the first has given two and the third one
C19_Witness ==
    /\ Len(cidrs) = 3
    /\ AllValid
    /\ RangeCount(cidrs[1]) = 4
    /\ RangeCount(cidrs[2]) = 1
    /\ RangeCount(cidrs[3]) = 4
    /\ Len(out["it1"]) = 4
    /\ Len(EmittedFrom(out["it1"], 1)) = 2
    /\ Len(EmittedFrom(out["it1"], 3)) = 1

(***************************************************************************)
(* SpecCli: the command line, python -m netenum [-r] < lines.  A line of  *)
(* standard input is blanks, then a range string or nothing, then blanks  *)
(* and the newline; main() reads them all, builds the enumerator, and     *)
(* prints the addresses as they come or, with -r, collects, shuffles and  *)
(* prints them.  Ctrl-C may arrive at any point.                          *)
(***************************************************************************)
\* longest standard input, in lines
MaxLines == 2

Line(left, body, right) == [left |-> left, body |-> body, right |-> right]

\* str.strip(): what is between the blanks, the empty string for a blank line
strip(line) == line.body

RECURSIVE get_cidrs_from_stdin(_)
get_cidrs_from_stdin(stdin) ==
    IF stdin = << >>
    THEN << >>
    ELSE IF strip(Head(stdin)) # << >>
         THEN << strip(Head(stdin))[1] >> \o get_cidrs_from_stdin(Tail(stdin))
         ELSE get_cidrs_from_stdin(Tail(stdin))

NoRangesMessage ==
    [prefix |-> "Error: ",
     text |-> "No CIDR ranges provided. Pipe CIDR ranges to stdin, one per line."]

\* print(f"Error: {str(e)}", file=sys.stderr) for the ValueError of ip_network
ErrorMessage(e) == [prefix |-> "Error: ", text |-> e]

\* print(addr): the text of the address; where it was pulled from is not in it
str(item) == [cls |-> item.cls, addr |-> item.addr]

LinePool ==
    { Line(0, << Cidr(4, AddrInt(10, 0, 0, 0), 31) >>, 0),  \* "10.0.0.0/31"
      Line(2, << Cidr(6, AddrInt(0, 0, 0, 1), 128) >>, 2),  \* "  ::1/128  "
      Line(0, << Garbage >>, 0),                            \* "invalid"
      Line(1, << Cidr(4, AddrInt(10, 0, 0, 0), 33) >>, 0),  \* " 10.0.0.0/33"
      Line(0, << >>, 0),                                    \* ""
      Line(2, << >>, 0) }                                   \* "  "

InitCli ==
    /\ cidrs = << >>
    /\ InitCore
    /\ cli \in { CliProcess(stdin, random) :
                    stdin \in UNION { [1..k -> LinePool] : k \in 0..MaxLines },
                    random \in BOOLEAN }
    /\ sizer_net = ip_network(Cidr(4, 0, 32))
    /\ sizer_size = 0

\* lines 21-24: read the lines; with none left, the message and exit status 1
\* (SystemExit is no Exception: the handler of line 39 does not see it)
CliRead ==
    /\ cli.pc = "start"
    /\ cidrs' = get_cidrs_from_stdin(cli.stdin)
    /\ cli' = IF cidrs' = << >>
              THEN [cli EXCEPT !.stderr = Append(@, NoRangesMessage),
                               !.exit = 1, !.pc = "exited"]
              ELSE [cli EXCEPT !.pc = "read"]
    /\ UNCHANGED << status, networks, iter_vars, sizer_net, sizer_size >>

\* netenum(cidrs), lines 28 and 34: iter(NetworkEnumerator(cidrs)); a
\* ValueError goes to the handler of lines 39-41
CliNetenum ==
    /\ cli.pc = "read"
    /\ LET r == init_networks(cidrs, << >>)
       IN  IF r.error = "none"
           THEN /\ status' = [status EXCEPT !["A"] = "ok"]
                /\ networks' = [networks EXCEPT !["A"] = r.networks]
                /\ pc' = [pc EXCEPT !["it1"] = "created"]
                /\ mode' = [mode EXCEPT !["it1"] = "sync"]
                /\ owner' = [owner EXCEPT !["it1"] = "A"]
                /\ cli' = [cli EXCEPT !.pc = IF cli.random THEN "collecting" ELSE "streaming"]
           ELSE /\ status' = [status EXCEPT !["A"] = r.error]
                /\ cli' = [cli EXCEPT !.stderr = Append(@, ErrorMessage(r.error)),
                                      !.exit = 1, !.pc = "exited"]
                /\ UNCHANGED << networks, pc, mode, owner >>
    /\ UNCHANGED << cidrs, active_gens, out, sleeps, sizer_net, sizer_size >>

\* one turn of the loop of lines 34-35: next() and print, or the end of the
\* loop and of main()
CliStream ==
    /\ cli.pc = "streaming"
    /\ LET d == IF pc["it1"] = "created"
                THEN new_deque(networks["A"])
                ELSE rotate(active_gens["it1"])
           r == iter_loop(d, networks["A"])
       IN  /\ Deliver("it1", r)
           /\ cli' = IF r.end
                     THEN [cli EXCEPT !.pc = "exited"]
                     ELSE [cli EXCEPT !.stdout = Append(@, str(r.item))]
    /\ UNCHANGED << cidrs, status, mode, owner, sleeps, sizer_net, sizer_size >>

\* one next() of list(netenum(cidrs)), line 28
CliCollect ==
    /\ cli.pc = "collecting"
    /\ LET d == IF pc["it1"] = "created"
                THEN new_deque(networks["A"])
                ELSE rotate(active_gens["it1"])
           r == iter_loop(d, networks["A"])
       IN  /\ Deliver("it1", r)
           /\ cli' = IF r.end
                     THEN [cli EXCEPT !.pc = "shuffling"]
                     ELSE [cli EXCEPT !.addresses = Append(@, r.item)]
    /\ UNCHANGED << cidrs, status, mode, owner, sleeps, sizer_net, sizer_size >>

\* random.shuffle(addresses), line 29: any order
CliShuffle ==
    /\ cli.pc = "shuffling"
    /\ \E order \in Permutations(1..Len(cli.addresses)) :
           cli' = [cli EXCEPT !.addresses = [k \in 1..Len(@) |-> @[order[k]]],
                              !.pc = "printing"]
    /\ UNCHANGED << cidrs, status, networks, iter_vars, sizer_net, sizer_size >>

\* one turn of the loop of lines 30-31, or its end and the end of main()
CliEmit ==
    /\ cli.pc = "printing"
    /\ cli' = IF cli.addresses = << >>
              THEN [cli EXCEPT !.pc = "exited"]
              ELSE [cli EXCEPT !.stdout = Append(@, str(Head(cli.addresses))),
                               !.addresses = Tail(@)]
    /\ UNCHANGED << cidrs, status, networks, iter_vars, sizer_net, sizer_size >>

\* Ctrl-C inside the try, lines 37-38: exit status 0
CliKeyboardInterrupt ==
    /\ cli.pc \in {"start", "read", "streaming", "collecting", "shuffling", "printing"}
    /\ cli' = [cli EXCEPT !.exit = 0, !.pc = "exited", !.interrupted = TRUE]
    /\ UNCHANGED << cidrs, status, networks, iter_vars, sizer_net, sizer_size >>

NextCli ==
    \/ CliRead
    \/ CliNetenum
    \/ CliStream
    \/ CliCollect
    \/ CliShuffle
    \/ CliEmit
    \/ CliKeyboardInterrupt

SpecCli == InitCli /\ [][NextCli]_vars

(***************************************************************************)
(* C17: the command line on bad input.  When a line of standard input     *)
(* holds a malformed range string, also after lines with valid ones,      *)
(* nothing is ever written to stdout, and main() (not interrupted) ends   *)
(* with one error message on stderr and a non-zero exit status.  When no  *)
(* line holds anything but blanks, the same, and the message is the one   *)
(* that begins "No CIDR ranges provided".                                 *)
(***************************************************************************)
HasMalformedLine ==
    \E k \in 1..Len(cli.stdin) :
        cli.stdin[k].body # << >> /\ Malformed(cli.stdin[k].body[1])

NoNonBlankLine == \A k \in 1..Len(cli.stdin) : cli.stdin[k].body = << >>

Ended == cli.pc = "exited" /\ ~cli.interrupted

C17_CliRejects ==
    /\ HasMalformedLine =>
           /\ cli.stdout = << >>
           /\ Ended => /\ cli.exit # 0
                       /\ Len(cli.stderr) = 1
                       /\ cli.stderr[1].prefix = "Error: "
    /\ NoNonBlankLine =>
           /\ cli.stdout = << >>
           /\ Ended => /\ cli.exit # 0
                       /\ cli.stderr = << NoRangesMessage >>

\* "10.0.0.0/31" then "invalid", without -r: ended with status 1, an error
\* on stderr and nothing on stdout
C17_Witness ==
    /\ Len(cli.stdin) = 2
    /\ cli.stdin[1].body = << Cidr(4, AddrInt(10, 0, 0, 0), 31) >>
    /\ cli.stdin[2].body = << Garbage >>
    /\ ~cli.random
    /\ Ended
    /\ cli.exit = 1
    /\ cli.stderr = << ErrorMessage("ValueError") >>
    /\ cli.stdout = << >>

====
